---- MODULE Spec2Model ----
(***************************************************************************)
(* Ontario ER Finder: the location-resolution and hospital-ranking logic   *)
(* of the Index screen (src/unnamed/part_001), with its travel-time        *)
(* provider, its geocoding chain and its controller (React state plus the  *)
(* asynchronous flows that the handlers start).                            *)
(*                                                                         *)
(* Strings the code inspects character by character (postal codes) are     *)
(* sequences of one-character strings.  Distances are in tenths of a       *)
(* kilometre, coordinates in 1e-4 degrees.                                 *)
(***************************************************************************)
EXTENDS Integers, Sequences, FiniteSets, TLC

\* ------------------------------------------------------------------ bounds
\* Longest hospital list the backend answers with in the model.
MaxHospitals == 2
\* Asynchronous flows (handler invocations that reach an await) one run starts.
MaxFlows == 2
\* Largest distance (tenths of a km) the travel-time provider is called with.
MaxDistance == 420
\* Largest duration (minutes) the routing service reports.
MaxDuration == 3
\* Longest list sortHospitals is called with on its own.
MaxSortLen == 3
\* Longest text formatPostalCode is called with on its own.
MaxTextLen == 7

\* ------------------------------------------------- JavaScript value encoding
\* `undefined` (a missing property) and NaN, for the numeric hospital fields.
Undefined == -1
NaN == -2

\* x || 0
OrZero(x) == IF x = Undefined \/ x = NaN \/ x = 0 THEN 0 ELSE x

\* a + b on numbers, where undefined + n is NaN
JsAdd(a, b) == IF a \in {Undefined, NaN} \/ b \in {Undefined, NaN} THEN NaN ELSE a + b

\* ------------------------------------------------------------- characters
UpperLetters == <<"A","B","C","D","E","F","G","H","I","J","K","L","M",
                  "N","O","P","Q","R","S","T","U","V","W","X","Y","Z">>
LowerLetters == <<"a","b","c","d","e","f","g","h","i","j","k","l","m",
                  "n","o","p","q","r","s","t","u","v","w","x","y","z">>
Digits == {"0","1","2","3","4","5","6","7","8","9"}
Whitespace == {" ", "\t"}

Range(s) == {s[i] : i \in DOMAIN s}

IsUpper(c) == c \in Range(UpperLetters)
IsLower(c) == c \in Range(LowerLetters)

\* String.prototype.toUpperCase, one character
ToUpper(c) ==
  IF IsLower(c)
  THEN UpperLetters[CHOOSE i \in DOMAIN LowerLetters : LowerLetters[i] = c]
  ELSE c

\* String.prototype.trim
RECURSIVE TrimLeft(_)
TrimLeft(s) ==
  IF s # <<>> /\ Head(s) \in Whitespace THEN TrimLeft(Tail(s)) ELSE s

RECURSIVE TrimRight(_)
TrimRight(s) ==
  IF s # <<>> /\ s[Len(s)] \in Whitespace
  THEN TrimRight(SubSeq(s, 1, Len(s) - 1))
  ELSE s

Trim(s) == TrimRight(TrimLeft(s))

\* s.replace(/\s+/g, by): every maximal run of whitespace becomes `by`
RECURSIVE ReplaceWhitespaceRuns(_, _)
ReplaceWhitespaceRuns(s, by) ==
  IF s = <<>> THEN <<>>
  ELSE IF Head(s) \in Whitespace
       THEN by \o ReplaceWhitespaceRuns(TrimLeft(s), by)
       ELSE <<Head(s)>> \o ReplaceWhitespaceRuns(Tail(s), by)

\* --------------------------------------------------- postal code (pure)
\* /^[KLMNP][0-9][A-Z]\s?[0-9][A-Z][0-9]$/i  against the trimmed input
MatchesTail(s) ==
  /\ Len(s) = 3
  /\ s[1] \in Digits
  /\ IsUpper(ToUpper(s[2]))
  /\ s[3] \in Digits

\* ontarioPostalRegex without its i flag.
ontarioPostalRegex_caseSensitive(s) ==
  /\ Len(s) \in {6, 7}
  /\ s[1] \in {"K","L","M","N","P"}
  /\ s[2] \in Digits
  /\ IsUpper(s[3])
  /\ LET tail == IF Len(s) = 7 THEN SubSeq(s, 5, 7) ELSE SubSeq(s, 4, 6)
     IN  /\ Len(s) = 7 => s[4] \in Whitespace
         /\ tail[1] \in Digits /\ IsUpper(tail[2]) /\ tail[3] \in Digits

ontarioPostalRegex(s) ==
  /\ Len(s) \in {6, 7}
  /\ ToUpper(s[1]) \in {"K","L","M","N","P"}
  /\ s[2] \in Digits
  /\ IsUpper(ToUpper(s[3]))
  /\ IF Len(s) = 7
     THEN s[4] \in Whitespace /\ MatchesTail(SubSeq(s, 5, 7))
     ELSE MatchesTail(SubSeq(s, 4, 6))

\* validateOntarioPostalCode accepting the codes of every province.
validateOntarioPostalCode_anyProvince(postalCode) ==
  LET s == Trim(postalCode)
  IN  Len(s) \in {6, 7} /\ IsUpper(ToUpper(s[1]))

validateOntarioPostalCode(postalCode) == ontarioPostalRegex(Trim(postalCode))

\* text.toUpperCase().replace(/[^A-Z0-9]/g, '')
RECURSIVE Cleaned(_)
Cleaned(text) ==
  IF text = <<>> THEN <<>>
  ELSE LET c == ToUpper(Head(text))
       IN  IF IsUpper(c) \/ c \in Digits
           THEN <<c>> \o Cleaned(Tail(text))
           ELSE Cleaned(Tail(text))

\* String.prototype.slice(from, to) with 0 <= from <= to
Slice(s, from, to) ==
  SubSeq(s, from + 1, IF to > Len(s) THEN Len(s) ELSE to)

\* formatPostalCode keeping everything after the third character
\* (cleaned.slice(3) for cleaned.slice(3, 6)).
formatPostalCode_keepsAll(text) ==
  LET cleaned == Cleaned(text)
  IN  IF Len(cleaned) > 3
      THEN Slice(cleaned, 0, 3) \o <<" ">> \o Slice(cleaned, 3, Len(cleaned))
      ELSE cleaned

formatPostalCode(text) ==
  LET cleaned == Cleaned(text)
  IN  IF Len(cleaned) > 3
      THEN Slice(cleaned, 0, 3) \o <<" ">> \o Slice(cleaned, 3, 6)
      ELSE cleaned

\* ------------------------------------------------- travel time (pure)
AVERAGE_SPEED_KMH == 40

\* Math.round((distanceKm / 40) * 60), distance in tenths of a km:
\* (d/10)/40*60 = 3d/20, halves rounded up.
HalfUp(distance) ==
  (60 * distance + 5 * AVERAGE_SPEED_KMH) \div (10 * AVERAGE_SPEED_KMH)

\* The quotient is computed in IEEE-754 doubles, dividing first: at these
\* distances (tenths of a km, all there are up to 500 km) the exact value is
\* k + 1/2 and the computed one is just below it, e.g. (41 / 40) * 60 is
\* 61.49999999999999, which Math.round takes to 61.
DoubleFallsShort == {410, 1690, 3230, 3330}

\* EstimatedTravelTime rounding towards zero (Math.floor for Math.round).
EstimatedTravelTime_truncates(distance) ==
  (60 * distance) \div (10 * AVERAGE_SPEED_KMH)

EstimatedTravelTime(distance) ==
  IF distance \in DoubleFallsShort THEN HalfUp(distance) - 1 ELSE HalfUp(distance)

\* What the routing request can come back with.
\*   throw     : fetch rejects (network error, timeout)
\*   notOk     : a response with a non-success status
\*   badJson   : a success response whose body is not JSON (json() rejects)
\*   null      : a success response whose body is the JSON value null
\*   body      : a success response with a JSON object; duration is the value
\*               of its `duration` property, Undefined when it has none
RoutingFailures == {"throw", "notOk", "badJson", "null"}

RoutingResponses(durations) ==
  [kind : RoutingFailures, duration : {Undefined}]
    \cup [kind : {"body"}, duration : durations \cup {Undefined}]

\* RealRoutingTimeProvider.calculateTravelTime
RealRoutingCalculateTravelTime(distance, resp) ==
  IF resp.kind \in {"throw", "notOk", "badJson", "null"}
  THEN EstimatedTravelTime(distance)
  ELSE resp.duration

\* --------------------------------------------------- sorting (pure)
SortModes == {"combined", "travelTime", "waitTime"}

\* SortKey with the combined mode comparing wait times only.
SortKey_combinedByWait(h, mode) ==
  CASE mode = "travelTime" -> OrZero(h.travelTimeMinutes)
    [] OTHER               -> h.currentWaitTime

\* SortKey with a missing travel time ranked last instead of as 0.
SortKey_absentTravelLast(h, mode) ==
  CASE mode = "travelTime" ->
         IF h.travelTimeMinutes = Undefined THEN 100000 ELSE h.travelTimeMinutes
    [] mode = "waitTime"   -> h.currentWaitTime
    [] OTHER               -> OrZero(h.totalTimeMinutes)

\* The number the comparator of each mode subtracts.
SortKey(h, mode) ==
  CASE mode = "travelTime" -> OrZero(h.travelTimeMinutes)
    [] mode = "waitTime"   -> h.currentWaitTime
    [] OTHER               -> OrZero(h.totalTimeMinutes)

\* The caller's array once sortHospitals sorted it in place.
InputAfterSort_inPlace(hospitalList, sorted) == sorted

\* Line 360: the sort works on a copy, the caller's array is left alone.
InputAfterSort(hospitalList, sorted) == hospitalList

\* Array.prototype.sort is stable: x goes after every element whose key is
\* not greater than its own.
RECURSIVE InsertByKey(_, _, _)
InsertByKey(x, sorted, mode) ==
  IF sorted = <<>> THEN <<x>>
  ELSE IF SortKey(Head(sorted), mode) <= SortKey(x, mode)
       THEN <<Head(sorted)>> \o InsertByKey(x, Tail(sorted), mode)
       ELSE <<x>> \o sorted

\* StableSort as an unstable sort: the last of several equal keys comes first.
RECURSIVE StableSort_tiesReversed(_, _)
StableSort_tiesReversed(list, mode) ==
  IF list = <<>> THEN <<>>
  ELSE LET x    == list[Len(list)]
           rest == StableSort_tiesReversed(SubSeq(list, 1, Len(list) - 1), mode)
           less == SelectSeq(rest, LAMBDA h : SortKey(h, mode) < SortKey(x, mode))
           more == SelectSeq(rest, LAMBDA h : SortKey(h, mode) >= SortKey(x, mode))
       IN  less \o <<x>> \o more

RECURSIVE StableSort(_, _)
StableSort(list, mode) ==
  IF list = <<>> THEN <<>>
  ELSE InsertByKey(list[Len(list)],
                   StableSort(SubSeq(list, 1, Len(list) - 1), mode), mode)

\* sortHospitals keeping the best entry only.
sortHospitals_topOne(hospitalList, mode) ==
  LET sorted == StableSort(hospitalList, mode)
  IN  IF sorted = <<>> THEN <<>> ELSE <<Head(sorted)>>

sortHospitals(hospitalList, mode) == StableSort(hospitalList, mode)

\* ------------------------------------------------ hospital records
\* The backend's catalogue: wait time (minutes) and distance (tenths of a
\* km) per hospital id; a record without `distance` has Undefined there.
CatalogueWait == <<30, 10, 20>>
CatalogueDistance == <<100, 250, Undefined>>

BackendHospital(id) ==
  [id                |-> id,
   currentWaitTime   |-> CatalogueWait[((id - 1) % 3) + 1],
   distance          |-> CatalogueDistance[((id - 1) % 3) + 1],
   travelTimeMinutes |-> Undefined,
   totalTimeMinutes  |-> Undefined]

\* Enriched with the wait time left out of the total.
Enriched_travelOnly(hospital, travelTime) ==
  [hospital EXCEPT !.travelTimeMinutes = travelTime,
                   !.totalTimeMinutes  = travelTime]

\* The object each mapped promise of fetchNearbyHospitals resolves to.
Enriched(hospital, travelTime) ==
  [hospital EXCEPT !.travelTimeMinutes = travelTime,
                   !.totalTimeMinutes  = JsAdd(travelTime, hospital.currentWaitTime)]

\* hospital.distance || 0
DistanceArgument(hospital) == OrZero(hospital.distance)

\* ------------------------------------------- geocoding chain (pure)
NoCoordinates == [lat |-> 0, lng |-> 0]

\* What a Nominatim search can come back with.
\*   throw  : fetch or json() rejects
\*   null   : the JSON value null
\*   array  : a JSON array of candidates (data), possibly empty
\*   object : any other JSON value (an error object): it has no length
NoData == [kind |-> "null", data |-> <<>>, latt |-> 0, longt |-> 0]

\* !data || data.length === 0
IsEmptyData(data) == data.kind = "null" \/ (data.kind = "array" /\ Len(data.data) = 0)

\* data && data.length > 0
HasResults(data) == data.kind = "array" /\ Len(data.data) > 0

\* { lat: parseFloat(data[0].lat), lng: parseFloat(data[0].lon) }
FirstCandidate(data) == [lat |-> data.data[1].lat, lng |-> data.data[1].lon]

\* Lines 127-134: the tail of geocodePostalCode.
GeocodeTail(data) ==
  IF HasResults(data)
  THEN [step |-> "returned", data |-> data, result |-> FirstCandidate(data)]
  ELSE [step |-> "returned", data |-> data, result |-> NoCoordinates]

GeocodeCaught(data) == [step |-> "returned", data |-> data, result |-> NoCoordinates]

\* AfterStructured without the emptiness gate: the free-text search is asked
\* whatever the structured search found.
AfterStructured_ungated(resp) ==
  IF resp.kind = "throw" THEN GeocodeCaught(NoData)
  ELSE [step |-> "freetext", data |-> resp, result |-> NoCoordinates]

\* The structured search answered.
AfterStructured(resp) ==
  IF resp.kind = "throw" THEN GeocodeCaught(NoData)
  ELSE IF IsEmptyData(resp)
       THEN [step |-> "freetext", data |-> resp, result |-> NoCoordinates]
       ELSE GeocodeTail(resp)

\* AfterFreeText without the third provider.
AfterFreeText_noAlternate(resp) ==
  IF resp.kind = "throw" THEN GeocodeCaught(NoData) ELSE GeocodeTail(resp)

\* The free-text search answered.
AfterFreeText(resp) ==
  IF resp.kind = "throw" THEN GeocodeCaught(NoData)
  ELSE IF IsEmptyData(resp)
       THEN [step |-> "alt", data |-> resp, result |-> NoCoordinates]
       ELSE GeocodeTail(resp)

\* What geocoder.ca can come back with.
\*   throw   : fetch rejects
\*   notOk   : a response with a non-success status
\*   badJson : a success response whose body is not JSON
\*   null    : a success response whose body is null
\*   body    : a success response with a JSON object; latt and longt are
\*             its properties (0 when missing or empty)
AltUsable(resp) == resp.kind = "body" /\ resp.latt # 0 /\ resp.longt # 0

\* geocoder.ca answered; data is what the free-text search left.
AfterAlt(data, resp) ==
  IF resp.kind \in {"throw", "badJson"} THEN GeocodeCaught(data)
  ELSE IF AltUsable(resp)
       THEN [step |-> "returned", data |-> data,
             result |-> [lat |-> resp.latt, lng |-> resp.longt]]
       ELSE GeocodeTail(data)

\* One answer of the provider the chain is waiting on.
GeocodeStep(step, data, resp) ==
  CASE step = "structured" -> AfterStructured(resp)
    [] step = "freetext"   -> AfterFreeText(resp)
    [] OTHER               -> AfterAlt(data, resp)

\* postalCode.trim().replace(/\s+/g, '+') and postalCode.trim().replace(/\s+/g, '')
FormattedPostalCode(postalCode) == ReplaceWhitespaceRuns(Trim(postalCode), <<"+">>)
CleanPostal(postalCode) == ReplaceWhitespaceRuns(Trim(postalCode), <<>>)

GeocodeQuery(step, postalCode) ==
  IF step = "alt" THEN CleanPostal(postalCode) ELSE FormattedPostalCode(postalCode)

\* ------------------------------------------- reverse geocoding (pure)
\* Area names; "" is a missing (or empty, equally falsy) address field.
ToLowerCase(name) ==
  CASE name \in {"Brampton", "BRAMPTON", "brampton"} -> "brampton"
    [] name = "Toronto"  -> "toronto"
    [] name = "Downtown" -> "downtown"
    [] OTHER -> name

\* a || b || c || d
FirstTruthy(names) ==
  IF \E i \in DOMAIN names : names[i] # ""
  THEN names[CHOOSE i \in DOMAIN names :
               names[i] # "" /\ \A j \in 1..(i - 1) : names[j] = ""]
  ELSE ""

BRAMPTON_LAT == 437100
BRAMPTON_LNG == -797800

Quadrant(lat, lng) ==
  LET isNorth == lat > BRAMPTON_LAT
      isWest  == lng < BRAMPTON_LNG
  IN  IF isNorth /\ isWest THEN "Northwest"
      ELSE IF isNorth /\ ~isWest THEN "Northeast"
      ELSE IF ~isNorth /\ isWest THEN "Southwest"
      ELSE "Southeast"

\* parts.join(' - ')
RECURSIVE Join(_)
Join(parts) ==
  IF parts = <<>> THEN <<>>
  ELSE IF Len(parts) = 1 THEN parts
  ELSE <<Head(parts), " - ">> \o Join(Tail(parts))

UnknownArea == <<"Unknown Area">>

\* AreaParts adding the quadrant to any city standing alone (lines 169-179
\* without the test of line 171).
AreaParts_everyCity(lat, lng, address) ==
  LET city == FirstTruthy(<<address.city, address.town, address.village,
                            address.municipality>>)
      neighborhood == FirstTruthy(<<address.suburb, address.neighbourhood,
                                    address.quarter>>)
      p1 == IF city # "" THEN <<city>> ELSE <<>>
      p2 == IF neighborhood # "" /\ neighborhood # city
            THEN Append(p1, neighborhood) ELSE p1
  IN  IF Len(p2) = 1 /\ city # ""
      THEN Append(p2, Quadrant(lat, lng))
      ELSE p2

AreaParts(lat, lng, address) ==
  LET city == FirstTruthy(<<address.city, address.town, address.village,
                            address.municipality>>)
      neighborhood == FirstTruthy(<<address.suburb, address.neighbourhood,
                                    address.quarter>>)
      p1 == IF city # "" THEN <<city>> ELSE <<>>
      p2 == IF neighborhood # "" /\ neighborhood # city
            THEN Append(p1, neighborhood) ELSE p1
  IN  IF Len(p2) = 1 /\ city # "" /\ ToLowerCase(city) = "brampton"
      THEN Append(p2, Quadrant(lat, lng))
      ELSE p2

\* reverseGeocode returning the joined parts as they are (line 183 without
\* its || 'Unknown Area').
reverseGeocode_noPlaceholder(lat, lng, resp) ==
  IF resp.kind = "body" /\ resp.hasAddress
  THEN Join(AreaParts(lat, lng, resp.address))
  ELSE UnknownArea

\* What the reverse-geocoding request can come back with: throw, notOk,
\* badJson, null as above; "body" is a JSON object, hasAddress telling
\* whether it has an `address` property.
reverseGeocode(lat, lng, resp) ==
  IF resp.kind = "body" /\ resp.hasAddress
  THEN LET joined == Join(AreaParts(lat, lng, resp.address))
       IN  IF joined = <<>> THEN UnknownArea ELSE joined
  ELSE UnknownArea

\* ===================================================== controller state
\* locationPermission is written (lines 216, 244) and never read in this
\* file, so it is not part of the state.
VARIABLES
  platform,             \* Platform.OS: "web" or "native"
  mounted,              \* the mount effect (lines 206-222) has run
  loading,
  refreshing,
  hospitals,
  userLocation,         \* coordinates of the held location object, or NoLocation
  sortMode,
  showPostalCodeInput,
  postalCode,
  locationSource,       \* "null", "gps", "postal"
  areaName,
  alert,                \* the Alert.alert call of the latest step, "none" without
  flows,                \* the asynchronous handler invocations in flight
  started,              \* how many flows the run has started
  shownSeq              \* which fetch filled `hospitals` (its flow's seq; 0: none yet)

\* -------------------------------------------- the standalone provider runs
VARIABLES
  tt,                   \* one calculateTravelTime call
  gc,                   \* one geocodePostalCode call
  sr,                   \* one sortHospitals call
  rv,                   \* one reverseGeocode call
  call                  \* one call of validateOntarioPostalCode, formatPostalCode
                        \* or EstimatedTravelTimeProvider.calculateTravelTime

vars == <<platform, mounted, loading, refreshing, hospitals, userLocation,
          sortMode, showPostalCodeInput, postalCode, locationSource, areaName,
          alert, flows, started, tt, gc, sr, rv, call, shownSeq>>

\* ------------------------------------------------------------ the inputs
NoLocation == NoCoordinates
DefaultLocation == [lat |-> 436532, lng |-> -793832]
\* What getCurrentPositionAsync reports (a position in Brampton).
GpsPositions == {[lat |-> 437315, lng |-> -797624]}
\* Where the geocoders place a postal code.
PostalPositions == {[lat |-> 436400, lng |-> -793800]}

\* What the user types: an Ontario postal code and a Quebec one.
TypedTexts == {<<"k","1","a","0","b","1">>, <<"h","2","x","1","y","4">>}

Candidate(c) == [lat |-> c.lat, lon |-> c.lng]

\* Candidate lists of at most n entries.
RECURSIVE CandidateLists(_, _)
CandidateLists(positions, n) ==
  IF n = 0 THEN {<<>>}
  ELSE LET shorter == CandidateLists(positions, n - 1)
       IN  shorter \cup {<<Candidate(c)>> \o l : c \in positions, l \in shorter}

NominatimResponses(positions, n) ==
  [kind : {"throw", "null", "object"}, data : {<<>>}, latt : {0}, longt : {0}]
    \cup [kind : {"array"}, latt : {0}, longt : {0},
          data : CandidateLists(positions, n)]

AltResponses(positions) ==
  [kind : {"throw", "notOk", "badJson", "null", "body"},
   data : {<<>>}, latt : {0}, longt : {0}]
    \cup {[kind |-> "body", data |-> <<>>, latt |-> c.lat, longt |-> c.lng] :
            c \in positions}

GeocoderResponses(step, positions, n) ==
  IF step = "alt" THEN AltResponses(positions) ELSE NominatimResponses(positions, n)

NoAddress == [city |-> "", town |-> "", village |-> "", municipality |-> "",
              suburb |-> "", neighbourhood |-> "", quarter |-> ""]

ControllerReverseResponses ==
  {[kind |-> "throw", hasAddress |-> FALSE, address |-> NoAddress],
   [kind |-> "body", hasAddress |-> TRUE,
    address |-> [NoAddress EXCEPT !.city = "Brampton"]]}

\* The backend's lists: the first n hospitals of its catalogue.
CatalogueLists == {[i \in 1..n |-> BackendHospital(i)] : n \in 0..MaxHospitals}

\* What the backend's /hospitals/nearby can come back with: throw, notOk,
\* badJson as above; "object" is a JSON body that is no array (data.map
\* throws); "array" carries the hospital list.
NearbyResponses ==
  [kind : {"throw", "notOk", "badJson", "object"}, data : {<<>>}]
    \cup [kind : {"array"}, data : CatalogueLists]

ControllerRoutingResponses == RoutingResponses({MaxDuration})

\* ------------------------------------------------------------- the flows
NewFlow ==
  [pc       |-> "new",
   seq      |-> 0,
   sortMode |-> "combined",
   at       |-> NoLocation,
   geo      |-> [step |-> "none", data |-> NoData],
   results  |-> <<>>,
   pending  |-> {}]

\* The flows in flight, in the order they started.
Flows == DOMAIN flows
MayStart == started < MaxFlows
Ended(f) == [i \in 1..(Len(flows) - 1) |-> IF i < f THEN flows[i] ELSE flows[i + 1]]

\* The place of a call of fetchNearbyHospitals made now among the calls made
\* so far: after the one whose result is shown and after every one in flight
\* (a flow that has not called it yet has seq 0).
NextFetchSeq ==
  1 + CHOOSE n \in {shownSeq} \cup {flows[g].seq : g \in Flows} :
        /\ shownSeq <= n
        /\ \A g \in Flows : flows[g].seq <= n

\* A handler invoked from the current render closes over the current state.
Started(pc, at) ==
  [NewFlow EXCEPT !.pc = pc, !.sortMode = sortMode, !.at = at,
                  !.seq = IF pc = "nearby" THEN NextFetchSeq ELSE 0]

CtlInit ==
  /\ platform \in {"web", "native"}
  /\ mounted = FALSE
  /\ loading = TRUE
  /\ refreshing = FALSE
  /\ hospitals = <<>>
  /\ userLocation = NoLocation
  /\ sortMode = "combined"
  /\ showPostalCodeInput = FALSE
  /\ postalCode = <<>>
  /\ locationSource = "null"
  /\ areaName = <<>>
  /\ alert = "none"
  /\ flows = <<>>
  /\ started = 0
  /\ shownSeq = 0

TtIdle == [pc |-> "idle", distance |-> 0,
           resp |-> [kind |-> "throw", duration |-> Undefined], result |-> Undefined]
GcIdle == [step |-> "none", postalCode |-> <<>>, data |-> NoData,
           result |-> NoCoordinates, inFlight |-> {}, trace |-> <<>>]

SrIdle == [pc |-> "idle", given |-> <<>>, input |-> <<>>, mode |-> "combined",
           output |-> <<>>, again |-> <<>>]
RvIdle == [pc |-> "idle", lat |-> 0, lng |-> 0,
           resp |-> [kind |-> "throw", hasAddress |-> FALSE, address |-> NoAddress],
           label |-> <<>>]

CallIdle ==
  [fn |-> "none", text |-> <<>>, from |-> [lat |-> 0, lng |-> 0],
   to |-> [lat |-> 0, lng |-> 0], distance |-> 0,
   valid |-> FALSE, formatted |-> <<>>, minutes |-> 0]

Init == CtlInit /\ tt = TtIdle /\ gc = GcIdle /\ sr = SrIdle /\ rv = RvIdle /\ call = CallIdle

\* ------------------------------------------------------ what is on screen
\* Lines 547-556: only the spinner is rendered.
SpinnerOnly == loading /\ ~showPostalCodeInput /\ userLocation = NoLocation
\* The postal-code modal covers the whole screen (lines 609, 1199-1210).
ModalOnScreen == mounted /\ showPostalCodeInput
\* Header, sort picker and list can be touched.
MainOnScreen == mounted /\ ~SpinnerOnly /\ ~showPostalCodeInput

\* ------------------------------------------------ decisions of the handlers
\* requestLocationPermission, status other than 'granted' (lines 249-252).
ShowAfterDenial(show) == show
\* LoadingAfterDenial without line 250.
LoadingAfterDenial_unchanged(isLoading) == isLoading

\* requestLocationPermission, status other than 'granted': setLoading(false)
\* (line 250).
LoadingAfterDenial(isLoading) == FALSE
\* ShowAfterPositionFailure without line 270.
ShowAfterPositionFailure_unchanged(show) == show

\* getUserLocationAndFetchHospitals, catch (line 270).
ShowAfterPositionFailure(show) == TRUE
\* handlePostalCodeSubmit once the code validated (line 281).
ShowAfterSubmit(show) == FALSE
\* HospitalsAfterFetchFailure with the list cleared in the catch block.
HospitalsAfterFetchFailure_cleared(hs) == <<>>

\* fetchNearbyHospitals, catch (lines 350-352): setHospitals is not called.
HospitalsAfterFetchFailure(hs) == hs
\* requestLocationPermission, status 'granted' (line 247).
SourceAfterGrant(source) == "gps"
\* onRefresh (line 379)
MayRefresh(location) == location # NoLocation

\* ------------------------------------------------------------ the actions
\* Startup asking for the location permission on every platform.
Startup_asksPermission ==
  /\ ~mounted
  /\ mounted' = TRUE
  /\ started' = started + 1
  /\ alert' = "none"
  /\ flows' = Append(flows, Started("permission", NoLocation))
  /\ UNCHANGED <<platform, loading, refreshing, hospitals, sortMode, userLocation,
                 locationSource, showPostalCodeInput, postalCode, areaName,
                 tt, gc, sr, rv,
                 call, shownSeq>>

\* The mount effect.
Startup ==
  /\ ~mounted
  /\ mounted' = TRUE
  /\ started' = started + 1
  /\ alert' = "none"
  /\ IF platform = "web"
     THEN /\ userLocation' = DefaultLocation
          /\ locationSource' = "gps"
          /\ flows' = Append(flows, Started("reverse", DefaultLocation))
     ELSE /\ flows' = Append(flows, Started("permission", NoLocation))
          /\ UNCHANGED <<userLocation, locationSource>>
  /\ UNCHANGED <<platform, loading, refreshing, hospitals, sortMode,
                 showPostalCodeInput, postalCode, areaName, tt, gc, sr, rv,
                 call, shownSeq>>

\* The "Change" button of the header.
OpenPostalCodeInput ==
  /\ MainOnScreen
  /\ showPostalCodeInput' = TRUE
  /\ alert' = "none"
  /\ UNCHANGED <<platform, mounted, loading, refreshing, hospitals, userLocation,
                 sortMode, postalCode, locationSource, areaName, flows, started,
                 tt, gc, sr, rv,
                 call, shownSeq>>

\* The close button of the modal.
ClosePostalCodeInput ==
  /\ ModalOnScreen
  /\ showPostalCodeInput' = FALSE
  /\ alert' = "none"
  /\ UNCHANGED <<platform, mounted, loading, refreshing, hospitals, userLocation,
                 sortMode, postalCode, locationSource, areaName, flows, started,
                 tt, gc, sr, rv,
                 call, shownSeq>>

\* "Use GPS Location" (lines 623-627), which calls requestLocationPermission.
UseGpsLocation ==
  /\ ModalOnScreen
  /\ platform # "web"
  /\ MayStart
  /\ showPostalCodeInput' = FALSE
  /\ loading' = TRUE
  /\ alert' = "none"
  /\ flows' = Append(flows, Started("permission", NoLocation))
  /\ started' = started + 1
  /\ UNCHANGED <<platform, mounted, refreshing, hospitals, userLocation,
                 sortMode, postalCode, locationSource, areaName, tt, gc, sr, rv,
                 call, shownSeq>>

\* onChangeText of the postal-code field.
handlePostalCodeChange(text) ==
  /\ ModalOnScreen
  /\ postalCode' = formatPostalCode(text)
  /\ alert' = "none"
  /\ UNCHANGED <<platform, mounted, loading, refreshing, hospitals, userLocation,
                 sortMode, showPostalCodeInput, locationSource, areaName, flows,
                 started, tt, gc, sr, rv,
                 call, shownSeq>>

\* onFocus of the postal-code field.
FocusPostalCode ==
  /\ ModalOnScreen
  /\ postalCode' = <<>>
  /\ alert' = "none"
  /\ UNCHANGED <<platform, mounted, loading, refreshing, hospitals, userLocation,
                 sortMode, showPostalCodeInput, locationSource, areaName, flows,
                 started, tt, gc, sr, rv,
                 call, shownSeq>>

\* handlePostalCodeSubmit up to its first await.
handlePostalCodeSubmit ==
  /\ ModalOnScreen
  /\ IF ~validateOntarioPostalCode(postalCode)
     THEN /\ alert' = "Invalid Postal Code"
          /\ UNCHANGED <<loading, showPostalCodeInput, flows, started>>
     ELSE /\ MayStart
          /\ loading' = TRUE
          /\ showPostalCodeInput' = ShowAfterSubmit(showPostalCodeInput)
          /\ alert' = "none"
          /\ flows' = Append(flows, [Started("geocode", NoLocation) EXCEPT
                                       !.geo = [step |-> "structured", data |-> NoData]])
          /\ started' = started + 1
  /\ UNCHANGED <<platform, mounted, refreshing, hospitals, userLocation,
                 sortMode, postalCode, locationSource, areaName, tt, gc, sr, rv,
                 call, shownSeq>>

\* SetSortMode fetching the list again instead of sorting the one in memory.
SetSortMode_refetches(mode) ==
  /\ MainOnScreen
  /\ mode # sortMode
  /\ MayRefresh(userLocation)
  /\ MayStart
  /\ sortMode' = mode
  /\ flows' = Append(flows, [Started("nearby", userLocation) EXCEPT !.sortMode = mode])
  /\ started' = started + 1
  /\ alert' = "none"
  /\ UNCHANGED <<platform, mounted, loading, refreshing, hospitals, userLocation,
                 showPostalCodeInput, postalCode, locationSource, areaName,
                 tt, gc, sr, rv,
                 call, shownSeq>>

\* The sort picker, with the re-sort effect its change triggers (234-239).
SetSortMode(mode) ==
  /\ MainOnScreen
  /\ mode # sortMode
  /\ sortMode' = mode
  /\ hospitals' = IF Len(hospitals) > 0
                  THEN sortHospitals(hospitals, mode)
                  ELSE hospitals
  /\ alert' = "none"
  /\ UNCHANGED <<platform, mounted, loading, refreshing, userLocation,
                 showPostalCodeInput, postalCode, locationSource, areaName,
                 flows, started, tt, gc, sr, rv,
                 call, shownSeq>>

\* Pull-to-refresh; without a held location the handler does nothing.
onRefresh ==
  /\ MainOnScreen
  /\ MayRefresh(userLocation)
  /\ MayStart
  /\ refreshing' = TRUE
  /\ alert' = "none"
  /\ flows' = Append(flows, Started("nearby", userLocation))
  /\ started' = started + 1
  /\ UNCHANGED <<platform, mounted, loading, hospitals, userLocation, sortMode,
                 showPostalCodeInput, postalCode, locationSource, areaName, tt, gc, sr, rv,
                 call, shownSeq>>

\* requestForegroundPermissionsAsync settles.
PermissionAnswered(f, status) ==
  /\ flows[f].pc = "permission"
  /\ alert' = "none"
  /\ CASE status = "granted" ->
            /\ locationSource' = SourceAfterGrant(locationSource)
            /\ flows' = [flows EXCEPT ![f].pc = "position"]
            /\ UNCHANGED <<loading, showPostalCodeInput>>
       [] status = "denied" ->
            /\ loading' = LoadingAfterDenial(loading)
            /\ showPostalCodeInput' = ShowAfterDenial(showPostalCodeInput)
            /\ flows' = Ended(f)
            /\ UNCHANGED locationSource
       [] OTHER ->
            /\ loading' = FALSE
            /\ flows' = Ended(f)
            /\ UNCHANGED <<locationSource, showPostalCodeInput>>
  /\ UNCHANGED <<platform, mounted, refreshing, hospitals, userLocation, sortMode,
                 postalCode, areaName, started, tt, gc, sr, rv,
                 call, shownSeq>>

\* getCurrentPositionAsync settles; position is NoLocation when it rejects.
PositionAnswered(f, position) ==
  /\ flows[f].pc = "position"
  /\ IF position # NoLocation
     THEN /\ userLocation' = position
          /\ flows' = [flows EXCEPT ![f].pc = "reverse", ![f].at = position]
          /\ alert' = "none"
          /\ UNCHANGED <<loading, showPostalCodeInput>>
     ELSE /\ alert' = "Unable to get your current location"
          /\ loading' = FALSE
          /\ showPostalCodeInput' = ShowAfterPositionFailure(showPostalCodeInput)
          /\ flows' = Ended(f)
          /\ UNCHANGED userLocation
  /\ UNCHANGED <<platform, mounted, refreshing, hospitals, sortMode, postalCode,
                 locationSource, areaName, started, tt, gc, sr, rv,
                 call, shownSeq>>

\* The geocoder the chain waits on answers; when geocodePostalCode returns,
\* handlePostalCodeSubmit goes on (lines 285-298).
GeocoderAnswered(f, resp) ==
  /\ flows[f].pc = "geocode"
  /\ LET r == GeocodeStep(flows[f].geo.step, flows[f].geo.data, resp)
     IN  IF r.step # "returned"
         THEN /\ flows' = [flows EXCEPT ![f].geo = [step |-> r.step, data |-> r.data]]
              /\ alert' = "none"
              /\ UNCHANGED <<userLocation, locationSource, loading>>
         ELSE IF r.result # NoCoordinates
         THEN /\ userLocation' = r.result
              /\ locationSource' = "postal"
              /\ flows' = [flows EXCEPT ![f] =
                             [NewFlow EXCEPT !.pc = "reverse",
                                             !.seq = flows[f].seq,
                                             !.sortMode = flows[f].sortMode,
                                             !.at = r.result]]
              /\ alert' = "none"
              /\ UNCHANGED loading
         ELSE /\ loading' = FALSE
              /\ alert' = "Unable to find coordinates for this postal code"
              /\ flows' = Ended(f)
              /\ UNCHANGED <<userLocation, locationSource>>
  /\ UNCHANGED <<platform, mounted, refreshing, hospitals, sortMode,
                 showPostalCodeInput, postalCode, areaName, started, tt, gc, sr, rv,
                 call, shownSeq>>

\* initializeLocation: reverseGeocode settles, then fetchNearbyHospitals is called.
ReverseAnswered(f, resp) ==
  /\ flows[f].pc = "reverse"
  /\ areaName' = reverseGeocode(flows[f].at.lat, flows[f].at.lng, resp)
  /\ flows' = [flows EXCEPT ![f].pc = "nearby", ![f].seq = NextFetchSeq]
  /\ alert' = "none"
  /\ UNCHANGED <<platform, mounted, loading, refreshing, hospitals, userLocation,
                 sortMode, showPostalCodeInput, postalCode, locationSource,
                 started, tt, gc, sr, rv,
                 call, shownSeq>>

\* fetchNearbyHospitals from the point where every travel time is known.
FetchSettled(f, enriched) ==
  /\ hospitals' = sortHospitals(enriched, flows[f].sortMode)
  /\ loading' = FALSE
  /\ refreshing' = FALSE
  /\ flows' = Ended(f)
  /\ shownSeq' = flows[f].seq
  /\ alert' = "none"

\* The backend's nearby call settles.
NearbyAnswered(f, resp) ==
  /\ flows[f].pc = "nearby"
  /\ IF resp.kind # "array"
     THEN /\ alert' = "Unable to fetch nearby hospitals"
          /\ hospitals' = HospitalsAfterFetchFailure(hospitals)
          /\ loading' = FALSE
          /\ refreshing' = FALSE
          /\ flows' = Ended(f)
          /\ UNCHANGED shownSeq
     ELSE IF resp.data = <<>>
     THEN FetchSettled(f, <<>>)
     ELSE /\ flows' = [flows EXCEPT ![f].pc = "travel",
                                    ![f].results = resp.data,
                                    ![f].pending = DOMAIN resp.data]
          /\ alert' = "none"
          /\ UNCHANGED <<hospitals, loading, refreshing, shownSeq>>
  /\ UNCHANGED <<platform, mounted, userLocation, sortMode, showPostalCodeInput,
                 postalCode, locationSource, areaName, started, tt, gc, sr, rv,
                 call>>

\* AllSettled as Promise.race would have it: the first answer settles.
AllSettled_first(pending, i) == TRUE

\* Promise.all (line 331): the answer to call i is the last one outstanding.
AllSettled(pending, i) == pending = {i}

\* One of the travel-time calls of the fan-out settles; the last one lets
\* Promise.all resolve.
TravelTimeAnswered(f, i, resp) ==
  /\ flows[f].pc = "travel"
  /\ i \in flows[f].pending
  /\ LET hospital   == flows[f].results[i]
         travelTime == RealRoutingCalculateTravelTime(DistanceArgument(hospital), resp)
         results    == [flows[f].results EXCEPT ![i] = Enriched(hospital, travelTime)]
     IN  IF AllSettled(flows[f].pending, i)
         THEN FetchSettled(f, results)
         ELSE /\ flows' = [flows EXCEPT ![f].results = results,
                                        ![f].pending = @ \ {i}]
              /\ alert' = "none"
              /\ UNCHANGED <<hospitals, loading, refreshing, shownSeq>>
  /\ UNCHANGED <<platform, mounted, userLocation, sortMode, showPostalCodeInput,
                 postalCode, locationSource, areaName, started, tt, gc, sr, rv,
                 call>>

Next ==
  \/ Startup
  \/ OpenPostalCodeInput
  \/ ClosePostalCodeInput
  \/ UseGpsLocation
  \/ \E text \in TypedTexts : handlePostalCodeChange(text)
  \/ FocusPostalCode
  \/ handlePostalCodeSubmit
  \/ \E mode \in SortModes : SetSortMode(mode)
  \/ onRefresh
  \/ \E f \in Flows, status \in {"granted", "denied", "throw"} :
       PermissionAnswered(f, status)
  \/ \E f \in Flows, position \in GpsPositions \cup {NoLocation} :
       PositionAnswered(f, position)
  \/ \E f \in Flows :
       \E resp \in GeocoderResponses(flows[f].geo.step, PostalPositions, 1) :
         GeocoderAnswered(f, resp)
  \/ \E f \in Flows, resp \in ControllerReverseResponses : ReverseAnswered(f, resp)
  \/ \E f \in Flows, resp \in NearbyResponses : NearbyAnswered(f, resp)
  \/ \E f \in Flows, i \in 1..MaxHospitals, resp \in ControllerRoutingResponses :
       TravelTimeAnswered(f, i, resp)

Spec == Init /\ [][Next]_vars

\* An awaited external call (permission request, position lookup, geocoder,
\* reverse geocoder, backend, routing) of some flow returns or throws.
Answered ==
  \/ \E f \in Flows, status \in {"granted", "denied", "throw"} :
       PermissionAnswered(f, status)
  \/ \E f \in Flows, position \in GpsPositions \cup {NoLocation} :
       PositionAnswered(f, position)
  \/ \E f \in Flows :
       \E resp \in GeocoderResponses(flows[f].geo.step, PostalPositions, 1) :
         GeocoderAnswered(f, resp)
  \/ \E f \in Flows, resp \in ControllerReverseResponses : ReverseAnswered(f, resp)
  \/ \E f \in Flows, resp \in NearbyResponses : NearbyAnswered(f, resp)
  \/ \E f \in Flows, i \in 1..MaxHospitals, resp \in ControllerRoutingResponses :
       TravelTimeAnswered(f, i, resp)

\* The steps that start, interleave or end an attempt: the controller without
\* the sort buttons and with one (valid) postal code to type.
NextLive ==
  \/ Startup
  \/ OpenPostalCodeInput
  \/ ClosePostalCodeInput
  \/ UseGpsLocation
  \/ handlePostalCodeChange(<<"k", "1", "a", "0", "b", "1">>)
  \/ handlePostalCodeSubmit
  \/ onRefresh
  \/ Answered

\* The mount effect runs and every external call eventually settles; what
\* the user does and when is left open.
SpecLive == Init /\ [][NextLive]_vars /\ WF_vars(Startup) /\ WF_vars(Answered)

\* ======================================== one calculateTravelTime call
\* The controller at rest, for the runs of a single provider call.
CtlAtRest == CtlInit /\ platform = "native"

Distances == 0..MaxDistance
Durations == 0..MaxDuration

InitTravel == CtlAtRest /\ tt = TtIdle /\ gc = GcIdle /\ sr = SrIdle /\ rv = RvIdle /\ call = CallIdle

\* travelTimeProvider.calculateTravelTime(from, to, distanceKm) up to its await
calculateTravelTime(distance) ==
  /\ tt.pc = "idle"
  /\ tt' = [tt EXCEPT !.pc = "await", !.distance = distance]
  /\ UNCHANGED <<platform, mounted, loading, refreshing, hospitals, userLocation,
                 sortMode, showPostalCodeInput, postalCode, locationSource,
                 areaName, alert, flows, started, gc, sr, rv,
                 call, shownSeq>>

\* the routing request settles and the call returns
RoutingAnswered(resp) ==
  /\ tt.pc = "await"
  /\ tt' = [tt EXCEPT !.pc = "done", !.resp = resp,
                      !.result = RealRoutingCalculateTravelTime(tt.distance, resp)]
  /\ UNCHANGED <<platform, mounted, loading, refreshing, hospitals, userLocation,
                 sortMode, showPostalCodeInput, postalCode, locationSource,
                 areaName, alert, flows, started, gc, sr, rv,
                 call, shownSeq>>

NextTravel ==
  \/ \E distance \in Distances : calculateTravelTime(distance)
  \/ \E resp \in RoutingResponses(Durations) : RoutingAnswered(resp)

SpecTravel == InitTravel /\ [][NextTravel]_vars

\* ========================================= one geocodePostalCode call
\* Postal codes that passed validateOntarioPostalCode.
GeocodeInputs == {<<"K","1","A"," ","0","B","1">>, <<"M","5","V","3","L","9">>,
                  <<"L","7","A"," ","4","M","7">>}
GeocodePositions == {[lat |-> 436400, lng |-> -793800],
                     [lat |-> 454200, lng |-> -756900]}

InitGeocode == CtlAtRest /\ tt = TtIdle /\ gc = GcIdle /\ sr = SrIdle /\ rv = RvIdle /\ call = CallIdle

\* geocodePostalCode(postalCode) up to its first await
geocodePostalCode(code) ==
  /\ gc.step = "none"
  /\ gc' = [gc EXCEPT !.step = "structured", !.postalCode = code,
                      !.inFlight = {"structured"}]
  /\ UNCHANGED <<platform, mounted, loading, refreshing, hospitals, userLocation,
                 sortMode, showPostalCodeInput, postalCode, locationSource,
                 areaName, alert, flows, started, tt, sr, rv,
                 call, shownSeq>>

\* the provider the call waits on answers; the call goes on to its next
\* await or returns
ProviderAnswered(resp) ==
  /\ gc.step \in {"structured", "freetext", "alt"}
  /\ LET r == GeocodeStep(gc.step, gc.data, resp)
     IN  gc' = [gc EXCEPT
                  !.step = r.step,
                  !.data = r.data,
                  !.result = r.result,
                  !.inFlight = (@ \ {gc.step}) \cup
                               (IF r.step = "returned" THEN {} ELSE {r.step}),
                  !.trace = Append(@, [provider |-> gc.step,
                                       query |-> GeocodeQuery(gc.step, gc.postalCode),
                                       resp |-> resp])]
  /\ UNCHANGED <<platform, mounted, loading, refreshing, hospitals, userLocation,
                 sortMode, showPostalCodeInput, postalCode, locationSource,
                 areaName, alert, flows, started, tt, sr, rv,
                 call, shownSeq>>

NextGeocode ==
  \/ \E code \in GeocodeInputs : geocodePostalCode(code)
  \/ \E resp \in GeocoderResponses(gc.step, GeocodePositions, 2) : ProviderAnswered(resp)

SpecGeocode == InitGeocode /\ [][NextGeocode]_vars

\* =========================================== one sortHospitals call
\* The travel times the mapped promises of fetchNearbyHospitals resolve to.
SortTravelTimes == {Undefined, 0, 20}

\* The hospitals sortHospitals is handed: backend records enriched by
\* fetchNearbyHospitals (lines 339-343), which is where both of its callers
\* (line 348 and the re-sort effect, line 236) get them from.
SortHospitalPool ==
  {Enriched(BackendHospital(id), t) : id \in {1, 2, 4}, t \in SortTravelTimes}

RECURSIVE ListsUpTo(_, _)
ListsUpTo(pool, n) ==
  IF n = 0 THEN {<<>>}
  ELSE LET shorter == ListsUpTo(pool, n - 1)
       IN  shorter \cup {<<h>> \o l : h \in pool, l \in {s \in shorter : Len(s) = n - 1}}

SortInputs == ListsUpTo(SortHospitalPool, MaxSortLen)

InitSort == CtlAtRest /\ tt = TtIdle /\ gc = GcIdle /\ sr = SrIdle /\ rv = RvIdle /\ call = CallIdle

\* sortHospitals(hospitalList, mode) is called
SortCalled(hospitalList, mode) ==
  /\ sr.pc = "idle"
  /\ sr' = [sr EXCEPT !.pc = "called", !.given = hospitalList,
                      !.input = hospitalList, !.mode = mode]
  /\ UNCHANGED <<platform, mounted, loading, refreshing, hospitals, userLocation,
                 sortMode, showPostalCodeInput, postalCode, locationSource,
                 areaName, alert, flows, started, tt, gc, rv,
                 call, shownSeq>>

\* and returns
SortReturned ==
  /\ sr.pc = "called"
  /\ LET sorted == sortHospitals(sr.input, sr.mode)
     IN  sr' = [sr EXCEPT !.pc = "returned", !.output = sorted,
                         !.input = InputAfterSort(sr.input, sorted)]
  /\ UNCHANGED <<platform, mounted, loading, refreshing, hospitals, userLocation,
                 sortMode, showPostalCodeInput, postalCode, locationSource,
                 areaName, alert, flows, started, tt, gc, rv,
                 call, shownSeq>>

\* sortHospitals is called on what it returned, with the same mode (the
\* re-sort effect on a list fetchNearbyHospitals already sorted)
SortedAgain ==
  /\ sr.pc = "returned"
  /\ sr' = [sr EXCEPT !.pc = "again", !.again = sortHospitals(sr.output, sr.mode)]
  /\ UNCHANGED <<platform, mounted, loading, refreshing, hospitals, userLocation,
                 sortMode, showPostalCodeInput, postalCode, locationSource,
                 areaName, alert, flows, started, tt, gc, rv,
                 call, shownSeq>>

NextSort ==
  \/ \E hospitalList \in SortInputs, mode \in SortModes : SortCalled(hospitalList, mode)
  \/ SortReturned
  \/ SortedAgain

SpecSort == InitSort /\ [][NextSort]_vars

\* =========================================== one reverseGeocode call
\* Address objects Nominatim answers with.
ReverseAddresses ==
  {[NoAddress EXCEPT !.city = c, !.town = w, !.suburb = s, !.neighbourhood = n] :
     c \in {"", "Brampton", "BRAMPTON", "Toronto"}, w \in {"", "Milton"},
     s \in {"", "Downtown", "Brampton"}, n \in {"", "Heart Lake"}}

ReverseResponses ==
  [kind : {"throw", "notOk", "badJson", "null"}, hasAddress : {FALSE},
   address : {NoAddress}]
    \cup {[kind |-> "body", hasAddress |-> FALSE, address |-> NoAddress]}
    \cup [kind : {"body"}, hasAddress : {TRUE}, address : ReverseAddresses]

\* One coordinate in each quadrant around lines 173-174, and the thresholds.
ReverseLatitudes == {BRAMPTON_LAT, BRAMPTON_LAT + 215}
ReverseLongitudes == {BRAMPTON_LNG, BRAMPTON_LNG - 200}

InitReverse == CtlAtRest /\ tt = TtIdle /\ gc = GcIdle /\ sr = SrIdle /\ rv = RvIdle /\ call = CallIdle

\* reverseGeocode(lat, lng) up to its await
ReverseCalled(lat, lng) ==
  /\ rv.pc = "idle"
  /\ rv' = [rv EXCEPT !.pc = "await", !.lat = lat, !.lng = lng]
  /\ UNCHANGED <<platform, mounted, loading, refreshing, hospitals, userLocation,
                 sortMode, showPostalCodeInput, postalCode, locationSource,
                 areaName, alert, flows, started, tt, gc, sr,
                 call, shownSeq>>

\* the request settles and the call returns
ReverseReturned(resp) ==
  /\ rv.pc = "await"
  /\ rv' = [rv EXCEPT !.pc = "done", !.resp = resp,
                      !.label = reverseGeocode(rv.lat, rv.lng, resp)]
  /\ UNCHANGED <<platform, mounted, loading, refreshing, hospitals, userLocation,
                 sortMode, showPostalCodeInput, postalCode, locationSource,
                 areaName, alert, flows, started, tt, gc, sr,
                 call, shownSeq>>

NextReverse ==
  \/ \E lat \in ReverseLatitudes, lng \in ReverseLongitudes : ReverseCalled(lat, lng)
  \/ \E resp \in ReverseResponses : ReverseReturned(resp)

SpecReverse == InitReverse /\ [][NextReverse]_vars

\* ======================== one call of a pure function of the screen
\* Texts validateOntarioPostalCode is called with: a postal code put
\* together from right and wrong pieces, with and without blanks around it.
ValidateInputs ==
  {lead \o <<first, digit, letter>> \o sep \o tail \o trail :
     lead   \in {<<>>, <<" ">>},
     first  \in {"K", "L", "M", "N", "P", "k", "A", "1"},
     digit  \in {"1", "X"},
     letter \in {"A", "a", "1"},
     sep    \in {<<>>, <<" ">>, <<" ", " ">>, <<"-">>, <<"\t">>},
     tail   \in {<<"0","B","1">>, <<"0","b","1">>, <<"0","B">>, <<"0","B","1","2">>,
                 <<"B","0","1">>, <<"1","A","1">>},
     trail  \in {<<>>, <<" ">>}}

\* Texts formatPostalCode is called with.
FormatAlphabet == {"k", "1", " ", "-"}

FormatInputs ==
  UNION {[1..n -> FormatAlphabet] : n \in 0..MaxTextLen} \cup TypedTexts

\* Coordinates the provider is handed.
EstimateCoordinates == GpsPositions \cup {DefaultLocation}

InitPure == CtlAtRest /\ tt = TtIdle /\ gc = GcIdle /\ sr = SrIdle /\ rv = RvIdle
            /\ call = CallIdle

\* validateOntarioPostalCode(postalCode)
ValidateCalled(text) ==
  /\ call.fn = "none"
  /\ call' = [call EXCEPT !.fn = "validate", !.text = text,
                          !.valid = validateOntarioPostalCode(text)]
  /\ UNCHANGED <<platform, mounted, loading, refreshing, hospitals, userLocation,
                 sortMode, showPostalCodeInput, postalCode, locationSource,
                 areaName, alert, flows, started, tt, gc, sr, rv, shownSeq>>

\* formatPostalCode(text)
FormatCalled(text) ==
  /\ call.fn = "none"
  /\ call' = [call EXCEPT !.fn = "format", !.text = text,
                          !.formatted = formatPostalCode(text)]
  /\ UNCHANGED <<platform, mounted, loading, refreshing, hospitals, userLocation,
                 sortMode, showPostalCodeInput, postalCode, locationSource,
                 areaName, alert, flows, started, tt, gc, sr, rv, shownSeq>>

\* EstimatedTravelTimeProvider.calculateTravelTime(from, to, distanceKm)
EstimateCalled(from, to, distance) ==
  /\ call.fn = "none"
  /\ call' = [call EXCEPT !.fn = "estimate", !.from = from, !.to = to,
                          !.distance = distance,
                          !.minutes = EstimatedTravelTime(distance)]
  /\ UNCHANGED <<platform, mounted, loading, refreshing, hospitals, userLocation,
                 sortMode, showPostalCodeInput, postalCode, locationSource,
                 areaName, alert, flows, started, tt, gc, sr, rv, shownSeq>>

\* The inputs are drawn only while no call has been made.
NextPure ==
  \/ call.fn = "none" /\ \E text \in ValidateInputs : ValidateCalled(text)
  \/ call.fn = "none" /\ \E text \in FormatInputs : FormatCalled(text)
  \/ call.fn = "none" /\ \E from, to \in EstimateCoordinates, distance \in Distances :
                           EstimateCalled(from, to, distance)

SpecPure == InitPure /\ [][NextPure]_vars

\* ================================================================ claims
\* ---------------------------------------------------------------- C1
\* The routing request failed: a network error or timeout, a non-success
\* status, or a body that is not the expected { duration: number }.
RoutingFailed(resp) ==
  resp.kind \in RoutingFailures \/ (resp.kind = "body" /\ resp.duration = Undefined)

\* C1: whenever the routing request of RealRoutingTimeProvider fails in any
\* way, the value returned equals the Estimated provider's value for the same
\* distance, round(distanceKm / 40 * 60).
C1_FallbackEquivalence ==
  (tt.pc = "done" /\ RoutingFailed(tt.resp))
    => tt.result = EstimatedTravelTime(tt.distance)

\* ---------------------------------------------------------------- C2
\* C2: when a provider step of geocodePostalCode raises a transport-level
\* exception, the chain goes on: the call does not return before the next
\* provider was asked, and it succeeds when a later provider has a result.
C2_ChainContinuesAfterException ==
  \A i \in DOMAIN gc.trace :
    (gc.trace[i].resp.kind = "throw" /\ gc.trace[i].provider # "alt")
      => /\ gc.step = "returned" => Len(gc.trace) > i
         /\ (gc.step = "returned" /\
             \E j \in (i + 1)..Len(gc.trace) :
                HasResults(gc.trace[j].resp) \/ AltUsable(gc.trace[j].resp))
              => gc.result # NoCoordinates

\* ---------------------------------------------------------------- C3
NearbyFailed ==
  \E f \in Flows, resp \in NearbyResponses :
    resp.kind # "array" /\ NearbyAnswered(f, resp)

\* C3: when the backend's nearby call fails, the failure is surfaced and the
\* displayed hospital collection is left exactly as it was.
C3_FetchFailureKeepsHospitals ==
  [][NearbyFailed =>
       (hospitals' = hospitals /\ alert' = "Unable to fetch nearby hospitals")]_vars

\* A fetch failed while a full list was on display.
C3_Witness ==
  /\ alert = "Unable to fetch nearby hospitals"
  /\ Len(hospitals) = MaxHospitals
  /\ ~loading /\ ~refreshing

\* ---------------------------------------------------------------- C4
IsNumber(x) == x # Undefined /\ x # NaN

\* C4: every displayed hospital that carries travelTimeMinutes and
\* currentWaitTime has totalTimeMinutes = travelTimeMinutes + currentWaitTime.
C4_TotalIsTravelPlusWait ==
  \A i \in DOMAIN hospitals :
    (IsNumber(hospitals[i].travelTimeMinutes) /\ IsNumber(hospitals[i].currentWaitTime))
      => hospitals[i].totalTimeMinutes =
           hospitals[i].travelTimeMinutes + hospitals[i].currentWaitTime

\* After a location change and a sort-mode change, a full list is displayed
\* with travel times and non-zero waits.
C4_Witness ==
  /\ Len(hospitals) = MaxHospitals
  /\ \A i \in DOMAIN hospitals :
       hospitals[i].travelTimeMinutes > 0 /\ hospitals[i].currentWaitTime > 0
  /\ sortMode = "waitTime"
  /\ locationSource = "postal"

\* ---------------------------------------------------------------- C5
\* handlePostalCodeSubmit rejected the code.
ValidationFailed ==
  /\ ModalOnScreen
  /\ ~validateOntarioPostalCode(postalCode)
  /\ alert' = "Invalid Postal Code"

\* A flow waiting on the geocoders ends: geocodePostalCode returned null.
GeocodeFailed ==
  \E f \in Flows : flows[f].pc = "geocode" /\ flows' = Ended(f)

\* C5: when a submitted postal code fails validation or geocoding, the manual
\* input stays presented, the failure is surfaced and the typed postal code
\* is unchanged.
C5_FailedSubmitKeepsManualInput ==
  [][(ValidationFailed \/ GeocodeFailed) =>
       (showPostalCodeInput' /\ alert' # "none" /\ postalCode' = postalCode)]_vars

\* ---------------------------------------------------------------- C6
GpsDenied == \E f \in Flows : PermissionAnswered(f, "denied")
GpsPositionFailed == \E f \in Flows : PositionAnswered(f, NoLocation)

\* The step ends one flow and issues no request: every other flow is where it
\* was and no flow started.
NothingIssued ==
  /\ started' = started
  /\ \E f \in Flows : flows' = Ended(f)

\* C6 as claimed: a GPS attempt that ends in permission denial or in a
\* device-location failure presents the manual postal-code input, and issues
\* no further request.
C6_GpsFailurePresentsManualInput ==
  [][(GpsDenied \/ GpsPositionFailed) =>
       (showPostalCodeInput' /\ NothingIssued)]_vars

\* C6 as amended: a device-location failure presents the manual input; a
\* permission denial ends loading and leaves the manual input as it was; in
\* both cases no further request is issued.
C6_GpsFailureEndsAttempt ==
  [][/\ GpsPositionFailed => (showPostalCodeInput' /\ ~loading' /\ NothingIssued)
     /\ GpsDenied => (showPostalCodeInput' = showPostalCodeInput /\ ~loading'
                      /\ NothingIssued)]_vars

\* Permission was declined at startup: nothing is in flight, nothing is
\* loading, and the manual input is not presented.
C6_Witness ==
  /\ platform = "native" /\ mounted
  /\ started = 1 /\ flows = <<>>
  /\ locationSource = "null"
  /\ ~loading /\ ~showPostalCodeInput

\* ---------------------------------------------------------------- C7
\* The state of the Location Source State Machine a controller state is in.
Phase ==
  IF ~mounted THEN "Uninitialized"
  ELSE IF \E f \in Flows : flows[f].pc \in {"permission", "position"} THEN "ResolvingGPS"
  ELSE IF \E f \in Flows : flows[f].pc = "geocode" THEN "ResolvingPostal"
  ELSE IF userLocation # NoLocation THEN "Resolved"
  ELSE "NeedsManualInput"

\* Flow f calls reverseGeocode (pc "reverse") or fetchNearbyHospitals (pc
\* "nearby") in this step.
Invokes(f, pc) ==
  /\ Len(flows') >= Len(flows)
  /\ f \in DOMAIN flows'
  /\ flows'[f].pc = pc
  /\ (f \in DOMAIN flows => flows[f].pc # pc)

\* C7: fetchNearbyHospitals and reverseGeocode are invoked only while the
\* controller is Resolved, with the coordinates of the resolved location.
C7_InvokedOnlyWhenResolved ==
  [][\A f \in DOMAIN flows' :
       (Invokes(f, "reverse") \/ Invokes(f, "nearby"))
         => (Phase' = "Resolved" /\ flows'[f].at = userLocation')]_vars

\* ---------------------------------------------------------------- C8
\* How a coordinate of the model was obtained.
OriginOf(location) ==
  CASE location = NoLocation -> "null"
    [] location \in PostalPositions -> "postal"
    [] OTHER -> "gps"

\* C8: the LocationSource tag describes how the held coordinates were
\* obtained; a failed resolution leaves coordinates and tag as they were.
C8_SourceDescribesCoordinates ==
  flows = <<>> => locationSource = OriginOf(userLocation)

\* ---------------------------------------------------------------- C9
ZeroResults(i) == i \in DOMAIN gc.trace /\ IsEmptyData(gc.trace[i].resp)
AskedOf(provider) == {i \in DOMAIN gc.trace : gc.trace[i].provider = provider}

\* C9: if the structured and the free-text search both return empty, the
\* alternate provider is asked exactly once before the call returns; and when
\* the alternate provider errors or has nothing usable, the call returns no
\* coordinates.
C9_AlternateAskedOnceThenFailure ==
  (gc.step = "returned" /\ ZeroResults(1) /\ ZeroResults(2))
    => /\ Cardinality(AskedOf("alt")) = 1
       /\ Len(gc.trace) = 3
       /\ ~AltUsable(gc.trace[3].resp) => gc.result = NoCoordinates

\* Both searches were empty and the alternate provider threw.
C9_Witness ==
  /\ gc.step = "returned"
  /\ ZeroResults(1) /\ ZeroResults(2)
  /\ Len(gc.trace) = 3 /\ gc.trace[3].resp.kind = "throw"
  /\ gc.result = NoCoordinates

\* ---------------------------------------------------------------- C10
\* The answer at position i of the trace carries a result.
GaveResult(i) ==
  IF gc.trace[i].provider = "alt"
  THEN AltUsable(gc.trace[i].resp)
  ELSE HasResults(gc.trace[i].resp)

ResultOf(i) ==
  IF gc.trace[i].provider = "alt"
  THEN [lat |-> gc.trace[i].resp.latt, lng |-> gc.trace[i].resp.longt]
  ELSE FirstCandidate(gc.trace[i].resp)

\* The providers asked so far, the one in flight included.
Asked == [i \in 1..(Len(gc.trace) + Cardinality(gc.inFlight)) |->
            IF i <= Len(gc.trace) THEN gc.trace[i].provider
            ELSE CHOOSE p \in gc.inFlight : TRUE]

\* C10: the chain is sequential and gated on emptiness: free-text only after
\* the structured search returned zero results, the alternate provider only
\* after both did, never two requests at once, and once a step returns a
\* result no later provider is asked and its first candidate is the result.
C10_ChainSequentialAndGated ==
  /\ Cardinality(gc.inFlight) <= 1
  /\ \A i \in DOMAIN Asked :
       /\ Asked[i] = "structured" => i = 1
       /\ Asked[i] = "freetext" => (i = 2 /\ Asked[1] = "structured" /\ ZeroResults(1))
       /\ Asked[i] = "alt" => (i = 3 /\ Asked[2] = "freetext"
                               /\ ZeroResults(1) /\ ZeroResults(2))
  /\ \A i \in DOMAIN gc.trace :
       GaveResult(i) => /\ Len(Asked) = i
                        /\ gc.step = "returned"
                        /\ gc.result = ResultOf(i)

\* The free-text search answered with two candidates after an empty
\* structured search; the first one is returned.
C10_Witness ==
  /\ gc.step = "returned"
  /\ Len(gc.trace) = 2
  /\ Len(gc.trace[2].resp.data) = 2
  /\ gc.trace[2].resp.data[1] # gc.trace[2].resp.data[2]
  /\ gc.result = FirstCandidate(gc.trace[2].resp)

\* ---------------------------------------------------------------- C11
\* handlePostalCodeSubmit is invoked with a text the Ontario pattern rejects.
RejectedSubmit ==
  handlePostalCodeSubmit /\ ~ontarioPostalRegex(Trim(postalCode))

\* C11: a submitted postal code that fails validation is reported at once,
\* no request of any kind is started, and the held location, the location
\* source, the hospital list and the loading flag stay as they were.
C11_RejectedSubmitIssuesNothing ==
  [][RejectedSubmit =>
       /\ alert' = "Invalid Postal Code"
       /\ flows' = flows /\ started' = started
       /\ userLocation' = userLocation /\ locationSource' = locationSource
       /\ hospitals' = hospitals /\ loading' = loading]_vars

\* A Quebec code was rejected while a full list for a resolved location was
\* on display.
C11_Witness ==
  /\ alert = "Invalid Postal Code"
  /\ postalCode = <<"H", "2", "X", " ", "1", "Y", "4">>
  /\ userLocation # NoLocation
  /\ Len(hospitals) = MaxHospitals
  /\ flows = <<>>

\* ---------------------------------------------------------------- C12
\* requestForegroundPermissionsAsync rejects.
PermissionRequestFailed == \E f \in Flows : PermissionAnswered(f, "throw")

\* C12: every failure of a postal submission, of a GPS request and of a
\* hospital fetch is reported to the user with a message.
C12_EveryFailureSurfaced ==
  [][(RejectedSubmit \/ GeocodeFailed \/ GpsDenied \/ PermissionRequestFailed
        \/ GpsPositionFailed \/ NearbyFailed)
       => alert' # "none"]_vars

\* ---------------------------------------------------------------- C13
SortDone == sr.pc \in {"returned", "again"}

\* travelTimeMinutes + currentWaitTime
SumOf(h) == JsAdd(h.travelTimeMinutes, h.currentWaitTime)

C14_WaitAndTravelNonDecreasing ==
  SortDone
    => \A i, j \in DOMAIN sr.output :
         i < j =>
           /\ sr.mode = "waitTime"
                => sr.output[i].currentWaitTime <= sr.output[j].currentWaitTime
           /\ sr.mode = "travelTime"
                => OrZero(sr.output[i].travelTimeMinutes)
                     <= OrZero(sr.output[j].travelTimeMinutes)

\* By travel time, a hospital without one was moved in front of one with a
\* positive travel time.
C14_Witness ==
  /\ sr.pc = "returned" /\ sr.mode = "travelTime"
  /\ Len(sr.given) = 2
  /\ sr.given[1].travelTimeMinutes > 0
  /\ sr.given[2].travelTimeMinutes = Undefined
  /\ sr.output = <<sr.given[2], sr.given[1]>>

\* ---------------------------------------------------------------- C15
Count(s, x) == Cardinality({i \in DOMAIN s : s[i] = x})

IsPermutation(a, b) ==
  /\ Len(a) = Len(b)
  /\ \A x \in Range(a) \cup Range(b) : Count(a, x) = Count(b, x)

\* C15: for every mode the returned list is a permutation of the whole
\* input, and the caller's list is in the order it was given in.
C15_PermutationInputUntouched ==
  SortDone => (IsPermutation(sr.output, sr.given) /\ sr.input = sr.given)

\* A list holding the same hospital twice came back in another order.
C15_Witness ==
  /\ sr.pc = "returned"
  /\ Len(sr.given) = MaxSortLen
  /\ sr.given[1] = sr.given[3] /\ sr.given[1] # sr.given[2]
  /\ sr.output # sr.given
  /\ sr.input = sr.given

\* ---------------------------------------------------------------- C16
\* C16: sorting is repeatable and idempotent: the same input and mode give
\* the same order again, and sorting the output again with the same mode
\* leaves its order as it is, hospitals with equal keys included.
C16_SortIdempotent ==
  /\ SortDone => sr.output = sortHospitals(sr.given, sr.mode)
  /\ sr.pc = "again" => sr.again = sr.output

\* The output was sorted again and holds two different hospitals with the
\* same key next to each other.
C16_Witness ==
  /\ sr.pc = "again"
  /\ sr.output # sr.given
  /\ \E i \in 1..(Len(sr.output) - 1) :
       /\ sr.output[i] # sr.output[i + 1]
       /\ SortKey(sr.output[i], sr.mode) = SortKey(sr.output[i + 1], sr.mode)

\* ---------------------------------------------------------------- C17
SortModeChanged == \E mode \in SortModes : SetSortMode(mode)

\* C17: a sort-mode change starts no request and leaves the held
\* coordinates, the location source, the area label and the displayed
\* hospital records as they are; only their order may change.
C17_SortModeChangeIsLocal ==
  [][SortModeChanged =>
       /\ flows' = flows /\ started' = started
       /\ userLocation' = userLocation
       /\ locationSource' = locationSource
       /\ areaName' = areaName
       /\ IsPermutation(hospitals', hospitals)]_vars

\* The list fetched at startup was reordered by choosing "Shortest Wait".
C17_Witness ==
  /\ sortMode = "waitTime"
  /\ started = 1 /\ flows = <<>>
  /\ Len(hospitals) = 2
  /\ hospitals[1].id = 2 /\ hospitals[2].id = 1
  /\ sortHospitals(hospitals, "combined") # hospitals

\* ---------------------------------------------------------------- C18
\* A flow asks for the location permission or waits for the device position.
AsksDevice == \E f \in Flows : flows[f].pc \in {"permission", "position"}

\* initializeLocation for the fallback coordinate gets its area name.
FallbackAreaNamed(f) ==
  /\ flows[f].at = DefaultLocation
  /\ \E resp \in ControllerReverseResponses : ReverseAnswered(f, resp)

\* C18: on the web the controller never asks for the location permission;
\* startup makes it Resolved with source gps at the fallback coordinate
\* (43.6532, -79.3832) and starts initializeLocation for that coordinate,
\* whose next step is the hospital fetch for it.
C18_WebStartupUsesFallback ==
  /\ [](platform = "web" => ~AsksDevice)
  /\ [][(platform = "web" /\ Startup) =>
          /\ Phase' = "Resolved"
          /\ locationSource' = "gps"
          /\ userLocation' = DefaultLocation
          /\ flows' = <<Started("reverse", DefaultLocation)>>]_vars
  /\ [][\A f \in Flows :
          (platform = "web" /\ FallbackAreaNamed(f)) =>
            (flows'[f].pc = "nearby" /\ flows'[f].at = DefaultLocation)]_vars

\* On the web, the startup flow asks the backend for the hospitals near the
\* fallback coordinate.
C18_Witness ==
  /\ platform = "web"
  /\ started = 1
  /\ locationSource = "gps" /\ userLocation = DefaultLocation
  /\ \E f \in Flows : flows[f].pc = "nearby" /\ flows[f].at = DefaultLocation

\* ---------------------------------------------------------------- C19
\* No name part can be collected from the answer: the request failed, the
\* body has no address, or the address has none of the fields read.
NoNamePart(resp) ==
  \/ resp.kind # "body"
  \/ ~resp.hasAddress
  \/ /\ FirstTruthy(<<resp.address.city, resp.address.town, resp.address.village,
                       resp.address.municipality>>) = ""
     /\ FirstTruthy(<<resp.address.suburb, resp.address.neighbourhood,
                       resp.address.quarter>>) = ""

\* C19: for every outcome of the request reverseGeocode completes with a
\* non-empty label, and the label is exactly "Unknown Area" whenever no name
\* part could be collected.
C19_ReverseGeocodeAlwaysLabels ==
  rv.pc = "done"
    => /\ rv.label # <<>>
       /\ \A i \in DOMAIN rv.label : rv.label[i] # ""
       /\ NoNamePart(rv.resp) => rv.label = UnknownArea

\* The body had an address with none of the fields read.
C19_Witness ==
  /\ rv.pc = "done"
  /\ rv.resp.kind = "body" /\ rv.resp.hasAddress
  /\ rv.resp.address = NoAddress
  /\ rv.label = UnknownArea

\* ---------------------------------------------------------------- C20
\* C20: for every outcome of the routing request the RealRouting call
\* completes with a numeric minute value.
C20_AlwaysNumericMinutes ==
  tt.pc = "done" => IsNumber(tt.result)

\* ---------------------------------------------------------------- C21
\* C21: at most one resolution/fetch/sort cycle is in progress at any time:
\* no two flows are in flight together, and the list is not re-sorted while
\* a flow is in flight.
C21_OneCycleAtATime ==
  /\ [](Len(flows) <= 1)
  /\ [][(SortModeChanged /\ Len(hospitals) > 0) => flows = <<>>]_vars

\* ---------------------------------------------------------------- C22
\* A record that went through the enrichment of lines 339-343.
IsEnriched(h) == h.totalTimeMinutes # Undefined

\* Flow f takes a step and is still in flight after it.
StaysInFlight(f) ==
  /\ Len(flows') = Len(flows)
  /\ flows'[f] # flows[f]

\* C22: when the backend answers with hospitals, one travel-time call per
\* hospital is outstanding before any of them is waited for; the displayed
\* list is replaced only by the answer that leaves none outstanding, in
\* whatever order they answer; and no displayed record lacks its enrichment.
C22_FanOutFanIn ==
  /\ [][\A f \in Flows : (StaysInFlight(f) /\ flows[f].pc = "nearby")
          => /\ flows'[f].pc = "travel"
             /\ flows'[f].results # <<>>
             /\ flows'[f].pending = DOMAIN flows'[f].results]_vars
  /\ [][\A f \in Flows : (StaysInFlight(f) /\ flows[f].pc = "travel")
          => hospitals' = hospitals]_vars
  /\ [](\A k \in DOMAIN hospitals : IsEnriched(hospitals[k]))
  /\ [](\A f \in Flows :
          flows[f].pc = "travel" =>
            /\ flows[f].pending # {}
            /\ \A k \in DOMAIN flows[f].results :
                 k \in flows[f].pending <=> ~IsEnriched(flows[f].results[k]))

\* The call for the second hospital answered before the one for the first,
\* and nothing is displayed yet.
C22_Witness ==
  /\ hospitals = <<>>
  /\ \E f \in Flows :
       /\ flows[f].pc = "travel"
       /\ Len(flows[f].results) = MaxHospitals
       /\ flows[f].pending = {1}

\* ---------------------------------------------------------------- C23
\* C23: validateOntarioPostalCode returns a boolean, TRUE exactly for the
\* texts that, without the whitespace at their two ends, are one of K L M N
\* P, a digit, a letter, at most one whitespace, then digit, letter, digit, in
\* either case; "K1A0B1" and "k1a 0b1" are accepted, "A1A 1A1" and "K1A 0B"
\* are rejected.
C23_ValidateMatchesPattern ==
  LET IsLetter(c) == c \in Range(UpperLetters) \cup Range(LowerLetters)
      Core(s) ==
        LET inked == {i \in DOMAIN s : s[i] \notin Whitespace}
        IN  IF inked = {} THEN <<>>
            ELSE SubSeq(s, CHOOSE i \in inked : \A k \in inked : i <= k,
                           CHOOSE i \in inked : \A k \in inked : i >= k)
      IsOntarioCode(s) ==
        \E sep \in {<<>>} \cup {<<w>> : w \in Whitespace} :
          /\ Len(s) = 6 + Len(sep)
          /\ SubSeq(s, 4, 3 + Len(sep)) = sep
          /\ s[1] \in {"K", "L", "M", "N", "P", "k", "l", "m", "n", "p"}
          /\ s[2] \in Digits /\ IsLetter(s[3])
          /\ s[4 + Len(sep)] \in Digits
          /\ IsLetter(s[5 + Len(sep)])
          /\ s[6 + Len(sep)] \in Digits
  IN  call.fn = "validate"
        => /\ call.valid \in BOOLEAN
           /\ call.valid <=> IsOntarioCode(Core(call.text))
           /\ call.text \in {<<"K","1","A","0","B","1">>,
                              <<"k","1","a"," ","0","b","1">>}
                => call.valid
           /\ call.text \in {<<"A","1","A"," ","1","A","1">>,
                              <<"K","1","A"," ","0","B">>}
                => ~call.valid

\* A lower-case code with blanks around it and a tab in the middle was
\* accepted.
C23_Witness ==
  /\ call.fn = "validate"
  /\ call.text = <<" ", "k", "1", "a", "\t", "0", "b", "1", " ">>
  /\ call.valid = TRUE

\* ---------------------------------------------------------------- C24
\* C24 as claimed: the result is the letters and digits of the input in upper
\* case, with one space after the third when there are four or more, and
\* nothing else changed (none of them dropped).
C24_FormatKeepsEveryCharacter ==
  LET kept == SelectSeq(call.text,
                        LAMBDA c : c \in Range(UpperLetters) \cup Range(LowerLetters)
                                                            \cup Digits)
      c == [i \in DOMAIN kept |-> ToUpper(kept[i])]
  IN  call.fn = "format"
        => call.formatted = IF Len(c) >= 4
                            THEN SubSeq(c, 1, 3) \o <<" ">> \o SubSeq(c, 4, Len(c))
                            ELSE c

\* C24 as amended: the same, but only the first six letters and digits are
\* kept; format("k1a0b1") is "K1A 0B1".
C24_FormatKeepsFirstSix ==
  LET kept == SelectSeq(call.text,
                        LAMBDA c : c \in Range(UpperLetters) \cup Range(LowerLetters)
                                                            \cup Digits)
      c    == [i \in DOMAIN kept |-> ToUpper(kept[i])]
      six  == IF Len(c) > 6 THEN SubSeq(c, 1, 6) ELSE c
  IN  call.fn = "format"
        => /\ call.formatted =
                IF Len(six) >= 4
                THEN SubSeq(six, 1, 3) \o <<" ">> \o SubSeq(six, 4, Len(six))
                ELSE six
           /\ call.text = <<"k","1","a","0","b","1">>
                => call.formatted = <<"K","1","A"," ","0","B","1">>

\* A text of seven letters and digits was cut to six.
C24_Witness ==
  /\ call.fn = "format"
  /\ Len(call.text) = MaxTextLen
  /\ \A i \in DOMAIN call.text : call.text[i] \in {"k", "1"}
  /\ Len(call.formatted) = 7
  /\ call.formatted[4] = " "

\* ---------------------------------------------------------------- C25
\* C25 as claimed: the estimate is distanceKm / 40 * 60 rounded to the
\* nearest minute, halves up (r - 1/2 <= 3d/20 < r + 1/2 for a distance of d
\* tenths of a km), whatever the coordinates; 40 km give 60, 0 km give 0.
C25_EstimateIsRoundedQuotient ==
  call.fn = "estimate"
    => /\ 20 * call.minutes - 10 <= 3 * call.distance
       /\ 3 * call.distance < 20 * call.minutes + 10
       /\ call.distance = 400 => call.minutes = 60
       /\ call.distance = 0 => call.minutes = 0

\* C25 as amended: the estimate is a nearest minute of distanceKm / 40 * 60
\* and depends on the distance only; an exact half goes up unless the
\* double-precision quotient falls short of it, as for 41 km, which give 61;
\* 40 km give 60, 0 km give 0.
C25_EstimateIsNearestMinute ==
  call.fn = "estimate"
    => /\ call.minutes \in Nat
       /\ 20 * call.minutes - 10 <= 3 * call.distance
       /\ 3 * call.distance <= 20 * call.minutes + 10
       /\ (3 * call.distance = 20 * call.minutes + 10)
            <=> call.distance \in DoubleFallsShort
       /\ call.distance = 410 => call.minutes = 61
       /\ call.distance = 400 => call.minutes = 60
       /\ call.distance = 0 => call.minutes = 0

\* 41 km were estimated at 61 minutes.
C25_Witness ==
  /\ call.fn = "estimate"
  /\ call.distance = 410
  /\ call.from # call.to
  /\ call.minutes = 61

\* ---------------------------------------------------------------- C26
\* C26: the label ends in a quadrant exactly when a city was found, no
\* neighbourhood other than the city was found and the city is Brampton in
\* any case; the quadrant is north iff lat > 43.71 and west iff lng < -79.78,
\* and a neighbourhood equal to the city is not in the label.
C26_QuadrantOnlyForBrampton ==
  (rv.pc = "done" /\ rv.resp.kind = "body" /\ rv.resp.hasAddress)
    => LET Quadrants == {"Northwest", "Northeast", "Southwest", "Southeast"}
           CityFound ==
             FirstTruthy(<<rv.resp.address.city, rv.resp.address.town,
                           rv.resp.address.village, rv.resp.address.municipality>>)
           NeighbourhoodFound ==
             FirstTruthy(<<rv.resp.address.suburb, rv.resp.address.neighbourhood,
                           rv.resp.address.quarter>>)
           lone == /\ CityFound # ""
                   /\ NeighbourhoodFound \in {"", CityFound}
           last == rv.label[Len(rv.label)]
       IN  /\ (last \in Quadrants)
                <=> (lone /\ CityFound \in {"Brampton", "BRAMPTON", "brampton"})
           /\ last \in Quadrants =>
                /\ rv.label = <<CityFound, " - ", last>>
                /\ last \in {"Northwest", "Northeast"} <=> rv.lat > 437100
                /\ last \in {"Northwest", "Southwest"} <=> rv.lng < -797800
           /\ (lone /\ last \notin Quadrants) => rv.label = <<CityFound>>

\* Brampton with a suburb of the same name, exactly on both thresholds, was
\* labelled Brampton - Southeast.
C26_Witness ==
  /\ rv.pc = "done" /\ rv.resp.kind = "body" /\ rv.resp.hasAddress
  /\ rv.resp.address.city = "Brampton" /\ rv.resp.address.suburb = "Brampton"
  /\ rv.lat = 437100 /\ rv.lng = -797800
  /\ rv.label = <<"Brampton", " - ", "Southeast">>

\* ---------------------------------------------------------------- C27
\* C27: whenever no fetch is in flight and the displayed list is not empty,
\* the list is in non-decreasing order of the key of the selected sort mode.
C27_DisplayedInSelectedOrder ==
  ((\A f \in Flows : flows[f].pc \notin {"nearby", "travel"}) /\ hospitals # <<>>)
    => \A i, j \in DOMAIN hospitals :
         i < j => SortKey(hospitals[i], sortMode) <= SortKey(hospitals[j], sortMode)

\* ---------------------------------------------------------------- C28
\* C28: the list a fetch has displayed is never replaced by the result of a
\* fetch that was initiated before it.
C28_NewestFetchWins ==
  [][shownSeq' # shownSeq => shownSeq' > shownSeq]_vars

\* ---------------------------------------------------------------- C30
\* C30: the list a flow holds is the array the backend answered with, the
\* enrichment keeps its ids in place, and the list displayed when the fetch
\* settles has the same ids, each once (none for an empty answer); the list on
\* screen never has more entries than the backend's limit allows.
C30_DisplaysWhatBackendReturned ==
  /\ [][\A f \in Flows :
          (StaysInFlight(f) /\ flows[f].pc = "nearby")
            => \E resp \in NearbyResponses :
                 resp.kind = "array" /\ flows'[f].results = resp.data]_vars
  /\ [][\A f \in Flows :
          (StaysInFlight(f) /\ flows[f].pc = "travel")
            => \A k \in DOMAIN flows[f].results :
                 flows'[f].results[k].id = flows[f].results[k].id]_vars
  /\ [][\A f \in Flows :
          (/\ flows[f].pc \in {"nearby", "travel"}
           /\ flows' = Ended(f)
           /\ shownSeq' = flows[f].seq)
            => IsPermutation([k \in DOMAIN hospitals' |-> hospitals'[k].id],
                             [k \in DOMAIN flows[f].results |->
                                flows[f].results[k].id])]_vars
  /\ [](Len(hospitals) <= MaxHospitals)

\* A second fetch displayed both hospitals of the answer, the second of the
\* backend's list first.
C30_Witness ==
  /\ flows = <<>> /\ started = 2 /\ shownSeq = 2
  /\ sortMode = "combined"
  /\ Len(hospitals) = 2
  /\ hospitals[1].id = 2 /\ hospitals[2].id = 1

\* ---------------------------------------------------------------- C29
\* C29: with no attempt in progress the loading and refreshing flags are both
\* false, and the screen comes to that state again and again: every attempt
\* that was started ends.
C29_EveryAttemptEnds ==
  /\ []((mounted /\ flows = <<>>) => (~loading /\ ~refreshing))
  /\ []<>(mounted /\ flows = <<>>)

\* A pull-to-refresh and a postal submission have both ended, the last of
\* them in a failure, and both flags are down.
C29_Witness ==
  /\ mounted /\ flows = <<>> /\ started = MaxFlows
  /\ locationSource = "postal"
  /\ alert = "Unable to fetch nearby hospitals"
  /\ ~loading /\ ~refreshing

====
